---- MODULE Spec2Model ----
(***************************************************************************)
(* Linear (arena) allocator over OS virtual memory: mem.h, single-header   *)
(* version with MemBlock / memAlloc / memFree / memResize.                 *)
(*                                                                         *)
(* Addresses and lengths are machine words (size_t) of WordBits bits; all  *)
(* arithmetic on them is done modulo 2^WordBits as the C code does.        *)
(* Memory contents are kept as the set of arena offsets that hold a        *)
(* non-zero byte; every other byte is zero.                                *)
(***************************************************************************)
EXTENDS Integers, Naturals, Sequences, FiniteSets, TLC

\* ---------------------------------------------------------------- bounds
\* width of size_t / uintptr_t in the model
WordBits == 20
\* arenas of up to MaxPages pages of available size
MaxPages == 1
\* number of MemBlock variables held by the caller
MaxBlocks == 2
\* number of non-zero bytes the caller stores
MaxDirty == 1
\* number of items a buffer is filled with
MaxLen == 5
\* arenas of up to BufPages pages for memBootstrap
BufPages == 2

\* ------------------------------------------------------- program constants
MEM_PAGE_SIZE == 4096
MEM_FLAG_UNSAFE == 2
\* address returned by VirtualAlloc(NULL, ..., MEM_RESERVE): some multiple of
\* the 64K allocation granularity
OS_BASE == 65536

SizeMod == 2 ^ WordBits
SIZE_MAX == SizeMod - 1
NULL == 0

\* ------------------------------------------------------ machine arithmetic
Add(a, b) == (a + b) % SizeMod
Sub(a, b) == (a - b + SizeMod) % SizeMod

RECURSIVE BitAnd(_, _)
BitAnd(a, b) ==
    IF a = 0 \/ b = 0 THEN 0
    ELSE (a % 2) * (b % 2) + 2 * BitAnd(a \div 2, b \div 2)

BitNot(a) == SIZE_MAX - a

\* ~((uint32_t)value - 1): all ones for true, zero for false
boolMask(value) == IF value THEN SIZE_MAX ELSE 0

\* (alignment & (alignment - 1)) == 0, the assertion of alignBackward
alignAssert(alignment) == BitAnd(alignment, Sub(alignment, 1)) = 0

alignBackward(address, alignment) == BitAnd(address, BitNot(Sub(alignment, 1)))

alignForward(address, alignment) ==
    alignBackward(Add(address, Sub(alignment, 1)), alignment)

\* ------------------------------------------------------------- data types
NullBlock == [ptr |-> NULL, len |-> 0]

\* no Buf of main.zig and no direct call of a helper
NoZbuf == [storage |-> <<>>, len |-> 0, ret |-> "none", item |-> 0]

NoCall == [fn |-> "none", arg |-> 0, alignment |-> 0, ret |-> 0]

\* the OS rounds a reservation up to whole pages
PageCeil(n) == ((n + MEM_PAGE_SIZE - 1) \div MEM_PAGE_SIZE) * MEM_PAGE_SIZE

\* ------------------------------------------------------------------ state
VARIABLES
    mem,      \* struct MemArena: [ptr, len, cap, commit, flags]
    reserved, \* bytes of address space the OS reserved at OS_BASE (page multiple)
    bytes,    \* arena offsets (relative to mem.ptr) holding a non-zero byte
    blocks,   \* the caller's MemBlock variables: slot -> [ptr, len]
    alive,    \* slots holding a live allocation, oldest first
    failed,   \* "none", or the assertion / fault that stopped the program
    last,     \* the last call made: operation, block, result, OS decommit issued
    arena,    \* mem.h struct MemArena: [ptr, len, cap, commit]
    heap,     \* mem.h arena memory: offset of an item cell -> its non-zero item
    bufs,     \* the caller's buffers: [ptr, len, cap]
    asked,    \* per buffer, the largest total of items successfully requested
    zbuf,     \* main.zig Buf: [storage, len, ret, item], capacity = Len(storage)
    call      \* the last direct call of a helper function: [fn, arg, alignment, ret]

vars == <<mem, reserved, bytes, blocks, alive, failed, last, arena, heap, bufs, asked,
          zbuf, call>>

\* the program that uses neither
NoHelpers == zbuf = NoZbuf /\ call = NoCall

Slots == 1 .. MaxBlocks

\* the caller's buffers
BufIds == {1}

\* ------------------------------------------------------- internal utilities
lastAlloc(m, block) ==
    IF block.ptr = NULL THEN FALSE
    ELSE Add(m.ptr, m.len) = Add(block.ptr, block.len)

memAvailable(m) == Sub(m.cap, m.len)

\* an OS that commits whatever range it is asked for
commit_anywhere(m, res, block) == TRUE

\* VirtualAlloc(MEM_COMMIT) succeeds on pages inside the reservation
commit(m, res, block) ==
    (block.ptr - OS_BASE) + block.len <= res

\* offsets of [from, to) removed from the non-zero set
ZeroRange(bs, from, to) == {o \in bs : o < from \/ o >= to}

\* decommit: TRUE iff VirtualFree(MEM_DECOMMIT) is called (no call for a no-op)
decommit(block) == block.len # 0

\* the range of addresses a call hands to the OS or to MEM_ZERO; none when empty
Touch(ptr, len) == IF len = 0 THEN {} ELSE {[ptr |-> ptr, len |-> len]}

\* adjustCommited that never gives pages back, whatever the flags
adjustCommited_lazy(st) ==
    LET m == st.mem
        aligned == alignForward(m.len, MEM_PAGE_SIZE)
    IN  IF aligned < m.commit
        THEN [st EXCEPT !.bytes = ZeroRange(st.bytes, m.len, m.commit)]
        ELSE IF aligned > m.commit
        THEN IF commit(m, st.reserved,
                       [ptr |-> Add(m.ptr, m.commit), len |-> aligned - m.commit])
             THEN [st EXCEPT !.mem.commit = aligned]
             ELSE [st EXCEPT !.failed = "assert_commit"]
        ELSE [st EXCEPT !.mem.commit = aligned]

\* adjustCommited that gives pages back without looking at MEM_FLAG_UNSAFE
adjustCommited_eager(st) ==
    LET m == st.mem
        aligned == alignForward(m.len, MEM_PAGE_SIZE)
    IN  IF aligned < m.commit
        THEN [st EXCEPT !.mem.commit = aligned,
                        !.bytes = ZeroRange(st.bytes, m.len, m.commit),
                        !.decommit = TRUE]
        ELSE IF aligned > m.commit
        THEN IF commit(m, st.reserved,
                       [ptr |-> Add(m.ptr, m.commit), len |-> aligned - m.commit])
             THEN [st EXCEPT !.mem.commit = aligned]
             ELSE [st EXCEPT !.failed = "assert_commit"]
        ELSE [st EXCEPT !.mem.commit = aligned]

\* state threaded through the C functions: arena, memory, failure, whether the
\* OS was asked to decommit, and the ranges committed, decommitted or zeroed
adjustCommited(st) ==
    LET m == st.mem
        aligned == alignForward(m.len, MEM_PAGE_SIZE)
    IN  IF aligned < m.commit
        THEN LET min_commit ==
                     IF BitAnd(m.flags, MEM_FLAG_UNSAFE) # 0 THEN m.commit ELSE aligned
             IN  \* decommit [min_commit, commit): pages lose their contents;
                 \* MEM_ZERO [len, min_commit)
                 [st EXCEPT !.mem.commit = min_commit,
                            !.bytes = ZeroRange(ZeroRange(st.bytes, min_commit, m.commit),
                                                m.len, min_commit),
                            !.decommit = decommit([ptr |-> Add(m.ptr, min_commit),
                                                   len |-> m.commit - min_commit]),
                            !.touched = @ \cup Touch(Add(m.ptr, min_commit),
                                                     m.commit - min_commit)
                                          \cup Touch(Add(m.ptr, m.len),
                                                     min_commit - m.len)]
        ELSE IF aligned > m.commit
        THEN IF commit(m, st.reserved,
                       [ptr |-> Add(m.ptr, m.commit), len |-> aligned - m.commit])
             THEN [st EXCEPT !.mem.commit = aligned,
                             !.touched = @ \cup Touch(Add(m.ptr, m.commit),
                                                      aligned - m.commit)]
             ELSE [st EXCEPT !.failed = "assert_commit"]
        ELSE [st EXCEPT !.mem.commit = aligned]

\* reading *ptr: "zero", "nonzero", or "fault" on a page that is not committed
ReadByte(st, ptr) ==
    LET off == Sub(ptr, st.mem.ptr)
    IN  IF off >= st.mem.commit THEN "fault"
        ELSE IF off \in st.bytes THEN "nonzero"
        ELSE "zero"

\* MEM_ASSERT(ptr[0] == 0)
AssertZero(st, ptr) ==
    LET b == ReadByte(st, ptr)
    IN  IF b = "zero" THEN st
        ELSE IF b = "fault" THEN [st EXCEPT !.failed = "access_violation"]
        ELSE [st EXCEPT !.failed = "assert_zero"]

\* -------------------------------------------------------- interface functions
\* memReserve: the arena after a successful reservation, as [mem, reserved]
memReserve(info) ==
    LET total_size == IF info.total_size = 0
                      THEN Add(info.available_size, MEM_PAGE_SIZE)
                      ELSE info.total_size
        avail_size == IF info.available_size = 0
                      THEN Sub(total_size, MEM_PAGE_SIZE)
                      ELSE info.available_size
    IN  [mem |-> [ptr    |-> OS_BASE + MEM_PAGE_SIZE,
                  cap    |-> avail_size,
                  len    |-> 0,
                  commit |-> 0,
                  flags  |-> BitAnd(MEM_FLAG_UNSAFE, boolMask(info.unsafe))],
         reserved |-> PageCeil(total_size)]

\* memClear that resets the length only
memClear_keepCommit(st) == [st EXCEPT !.mem.len = 0]

memClear(st) == adjustCommited([st EXCEPT !.mem.len = 0])

\* result: the state, plus the returned block
memAlloc(st, len, alignment) ==
    IF ~alignAssert(alignment)
    THEN [st |-> [st EXCEPT !.failed = "assert_alignment"], block |-> NullBlock]
    ELSE
    LET m == st.mem
        ptr == alignForward(Add(m.ptr, m.len), alignment)
        next_len == Add(len, Sub(ptr, m.ptr))
    IN  IF next_len > m.cap \/ len = 0
        THEN [st |-> st, block |-> NullBlock]
        ELSE LET adj == adjustCommited([st EXCEPT !.mem.len = next_len])
             IN  [st |-> IF adj.failed # "none" THEN adj ELSE AssertZero(adj, ptr),
                  block |-> [ptr |-> ptr, len |-> len]]

\* result: the state, the block as left in the caller's variable, the return value
memFree(st, block) ==
    LET m == st.mem
    IN  IF ~lastAlloc(m, block)
        THEN [st |-> st, block |-> block, ret |-> FALSE]
        ELSE IF ~(block.len # 0 /\ block.len < m.cap)
        THEN [st |-> [st EXCEPT !.failed = "assert_free_len"],
              block |-> block, ret |-> FALSE]
        ELSE LET adj == adjustCommited([st EXCEPT !.mem.len = Sub(m.len, block.len)])
             IN  IF adj.failed # "none"
                 THEN [st |-> adj, block |-> block, ret |-> FALSE]
                 ELSE [st |-> adj, block |-> NullBlock, ret |-> TRUE]

\* memResize that moves the length before it checks the request against Available()
memResize_moveFirst(st, block, new_len) ==
    LET m == st.mem
    IN  IF ~lastAlloc(m, block)
        THEN [st |-> st, block |-> block, ret |-> FALSE]
        ELSE IF new_len >= block.len /\ Sub(new_len, block.len) > memAvailable(m)
        THEN [st |-> [st EXCEPT !.mem.len = Add(m.len, Sub(new_len, block.len))],
              block |-> block, ret |-> FALSE]
        ELSE
        LET moved == IF new_len < block.len
                     THEN [st EXCEPT !.mem.len = Sub(m.len, Sub(block.len, new_len))]
                     ELSE [st EXCEPT !.mem.len = Add(m.len, Sub(new_len, block.len))]
            adj == adjustCommited(moved)
            chk == IF adj.failed # "none" \/ new_len = 0 THEN adj
                   ELSE AssertZero(adj, block.ptr)
        IN  IF chk.failed # "none"
            THEN [st |-> chk, block |-> block, ret |-> FALSE]
            ELSE [st |-> chk,
                  block |-> [ptr |-> IF new_len = 0 THEN NULL ELSE block.ptr,
                             len |-> new_len],
                  ret |-> TRUE]

\* memResize that leaves the pointer of an emptied block in place
memResize_keepPtr(st, block, new_len) ==
    LET m == st.mem
    IN  IF ~lastAlloc(m, block)
        THEN [st |-> st, block |-> block, ret |-> FALSE]
        ELSE IF new_len >= block.len /\ Sub(new_len, block.len) > memAvailable(m)
        THEN [st |-> st, block |-> block, ret |-> FALSE]
        ELSE
        LET moved == IF new_len < block.len
                     THEN [st EXCEPT !.mem.len = Sub(m.len, Sub(block.len, new_len))]
                     ELSE [st EXCEPT !.mem.len = Add(m.len, Sub(new_len, block.len))]
            adj == adjustCommited(moved)
            chk == IF adj.failed # "none" \/ new_len = 0 THEN adj
                   ELSE AssertZero(adj, block.ptr)
        IN  IF chk.failed # "none"
            THEN [st |-> chk, block |-> block, ret |-> FALSE]
            ELSE [st |-> chk,
                  block |-> [ptr |-> block.ptr,
                             len |-> new_len],
                  ret |-> TRUE]

memResize(st, block, new_len) ==
    LET m == st.mem
    IN  IF ~lastAlloc(m, block)
        THEN [st |-> st, block |-> block, ret |-> FALSE]
        ELSE IF new_len >= block.len /\ Sub(new_len, block.len) > memAvailable(m)
        THEN [st |-> st, block |-> block, ret |-> FALSE]
        ELSE
        LET moved == IF new_len < block.len
                     THEN [st EXCEPT !.mem.len = Sub(m.len, Sub(block.len, new_len))]
                     ELSE [st EXCEPT !.mem.len = Add(m.len, Sub(new_len, block.len))]
            adj == adjustCommited(moved)
            chk == IF adj.failed # "none" \/ new_len = 0 THEN adj
                   ELSE AssertZero(adj, block.ptr)
        IN  IF chk.failed # "none"
            THEN [st |-> chk, block |-> block, ret |-> FALSE]
            ELSE [st |-> chk,
                  block |-> [ptr |-> IF new_len = 0 THEN NULL ELSE block.ptr,
                             len |-> new_len],
                  ret |-> TRUE]

\* ===================================================== mem.h: arena and buffers
\* sizeof(MemArena): ptr, len, cap, commit
ARENA_SIZE == 32
PAGE_SIZE == 4096
MEM_ALIGN_MAX == 16
\* sizeof(int32_t), the item type of the buffers
ItemSize == 4

Mul(a, b) == (a * b) % SizeMod

Shr(a, n) == IF n >= WordBits THEN 0 ELSE a \div (2 ^ n)

BitOr(a, b) == a + b - BitAnd(a, b)

\* v |= v >> n
Smear(v, n) == BitOr(v, Shr(v, n))

\* ceilPowerOf2 without the decrement before the bits are smeared
ceilPowerOf2_noDec(x) ==
    Add(Smear(Smear(Smear(Smear(Smear(Smear(x, 1), 2), 4), 8), 16), 32), 1)

ceilPowerOf2(x) ==
    Add(Smear(Smear(Smear(Smear(Smear(Smear(Sub(x, 1), 1), 2), 4), 8), 16), 32), 1)

memAlignBackward(addr, alignment) == BitAnd(addr, BitNot(Sub(alignment, 1)))

memAlignForward(addr, alignment) ==
    memAlignBackward(Add(addr, Sub(alignment, 1)), alignment)

NullBuf == [ptr |-> NULL, len |-> 0, cap |-> 0]

NoArena == [ptr |-> NULL, len |-> 0, cap |-> 0, commit |-> 0]

EmptyHeap == [o \in {} |-> 0]

\* the item stored at arena offset off; memory never written reads as zero
Peek(h, off) == IF off \in DOMAIN h THEN h[off] ELSE 0

\* the heap after the cells of w are written
Store(h, w) ==
    LET val(o) == IF o \in DOMAIN w THEN w[o] ELSE h[o]
    IN  [o \in {p \in DOMAIN h \cup DOMAIN w : val(p) # 0} |-> val(o)]

\* bytes from the start of the reservation that are backed by committed pages
Backed(st) == PageCeil((st.arena.ptr - OS_BASE) + st.arena.commit)

\* the n bytes at addr can be read and written
Accessible(st, addr, n) ==
    n = 0 \/ (addr >= OS_BASE /\ (addr - OS_BASE) + n <= Backed(st))

\* item cells of a range of n bytes
Cells(n) == 0 .. (n \div ItemSize) - 1

\* memcpy(dst, src, n); for overlapping ranges the result depends on the order
\* cp in which the library copies
memcpy(st, dst, src, n, cp) ==
    IF ~Accessible(st, dst, n) \/ ~Accessible(st, src, n)
    THEN [st EXCEPT !.failed = "access_violation"]
    ELSE LET d == dst - st.arena.ptr
             s == src - st.arena.ptr
             gap == d - s
             from(i) == IF cp = "forward" /\ gap > 0 /\ i * ItemSize >= gap
                        THEN s + ((i * ItemSize) % gap)
                        ELSE s + i * ItemSize
         IN  [st EXCEPT !.heap =
                 Store(st.heap, [o \in {d + i * ItemSize : i \in Cells(n)} |->
                                    Peek(st.heap, from((o - d) \div ItemSize))]),
                        !.wrote = @ \cup {d + i * ItemSize : i \in Cells(n)}]

\* memMove(from, to, count): memmove
memMove(st, from, to, count) ==
    IF ~Accessible(st, from, count) \/ ~Accessible(st, to, count)
    THEN [st EXCEPT !.failed = "access_violation"]
    ELSE LET d == to - st.arena.ptr
             s == from - st.arena.ptr
         IN  [st EXCEPT !.heap =
                 Store(st.heap, [o \in {d + i * ItemSize : i \in Cells(count)} |->
                                    Peek(st.heap, s + (o - d))]),
                        !.wrote = @ \cup {d + i * ItemSize : i \in Cells(count)}]

\* ptr[0] = item for an item pointer
StoreItem(st, ptr, item) ==
    IF ~Accessible(st, ptr, ItemSize)
    THEN [st EXCEPT !.failed = "access_violation"]
    ELSE [st EXCEPT !.heap =
             Store(st.heap, [o \in {ptr - st.arena.ptr} |-> item]),
                    !.wrote = @ \cup {ptr - st.arena.ptr}]

isLastAlloc(a, ptr, size) ==
    IF ptr = NULL THEN FALSE
    ELSE Add(a.ptr, a.len) = Add(ptr, size)

\* VirtualAlloc(MEM_COMMIT) succeeds on a range inside the reservation
VirtualAlloc(res, ptr, len) == (ptr - OS_BASE) + len <= res

memCommit(st) ==
    LET a == st.arena
        next_commit == memAlignForward(a.len, PAGE_SIZE)
    IN  IF next_commit > a.commit
           /\ VirtualAlloc(st.reserved, a.ptr + a.commit, next_commit - a.commit)
        THEN [st EXCEPT !.arena.commit = next_commit]
        ELSE st

memBootstrap(total_size) ==
    LET commit_size == memAlignForward(ARENA_SIZE, PAGE_SIZE)
    IN  [arena |-> [ptr    |-> OS_BASE + ARENA_SIZE,
                    cap    |-> Sub(total_size, ARENA_SIZE),
                    len    |-> 0,
                    commit |-> Sub(commit_size, ARENA_SIZE)],
         reserved |-> PageCeil(total_size)]

\* memReallocEx that takes what is left of the arena when the last block cannot grow
memReallocEx_takeRest(st, old_ptr, old_size, new_size, alignment, cp) ==
    LET a == st.arena
    IN  IF ~(old_ptr = NULL \/ old_size # 0)
        THEN [st |-> [st EXCEPT !.failed = "assert_old_state"], ptr |-> NULL]
        ELSE IF ~(new_size # 0 \/ old_ptr # NULL)
        THEN [st |-> [st EXCEPT !.failed = "assert_new_request"], ptr |-> NULL]
        ELSE IF isLastAlloc(a, old_ptr, old_size)
        THEN IF new_size <= old_size
             THEN [st |-> [st EXCEPT !.arena.len = Sub(a.len, Sub(old_size, new_size))],
                   ptr |-> old_ptr]
             ELSE IF Sub(a.cap, a.len) >= Sub(new_size, old_size)
             THEN [st |-> memCommit([st EXCEPT !.arena.len =
                                        Add(a.len, Sub(new_size, old_size))]),
                   ptr |-> old_ptr]
             ELSE [st |-> [st EXCEPT !.arena.len = a.cap], ptr |-> NULL]
        ELSE LET offset == memAlignForward(a.len, alignment)
             IN  IF offset <= a.cap /\ Sub(a.cap, offset) >= new_size
                 THEN LET new_ptr == Add(a.ptr, offset)
                          grown == memCommit([st EXCEPT !.arena.len = Add(offset, new_size)])
                      IN  [st |-> IF old_ptr # NULL
                                  THEN memcpy(grown, new_ptr, old_ptr, new_size, cp)
                                  ELSE grown,
                           ptr |-> new_ptr]
                 ELSE [st |-> st, ptr |-> NULL]

\* memReallocEx that grows a block only by moving it behind the length
memReallocEx_moveToGrow(st, old_ptr, old_size, new_size, alignment, cp) ==
    LET a == st.arena
    IN  IF ~(old_ptr = NULL \/ old_size # 0)
        THEN [st |-> [st EXCEPT !.failed = "assert_old_state"], ptr |-> NULL]
        ELSE IF ~(new_size # 0 \/ old_ptr # NULL)
        THEN [st |-> [st EXCEPT !.failed = "assert_new_request"], ptr |-> NULL]
        ELSE IF isLastAlloc(a, old_ptr, old_size) /\ new_size <= old_size
        THEN IF new_size <= old_size
             THEN [st |-> [st EXCEPT !.arena.len = Sub(a.len, Sub(old_size, new_size))],
                   ptr |-> old_ptr]
             ELSE IF Sub(a.cap, a.len) >= Sub(new_size, old_size)
             THEN [st |-> memCommit([st EXCEPT !.arena.len =
                                        Add(a.len, Sub(new_size, old_size))]),
                   ptr |-> old_ptr]
             ELSE [st |-> st, ptr |-> NULL]
        ELSE LET offset == memAlignForward(a.len, alignment)
             IN  IF offset <= a.cap /\ Sub(a.cap, offset) >= new_size
                 THEN LET new_ptr == Add(a.ptr, offset)
                          grown == memCommit([st EXCEPT !.arena.len = Add(offset, new_size)])
                      IN  [st |-> IF old_ptr # NULL
                                  THEN memcpy(grown, new_ptr, old_ptr, new_size, cp)
                                  ELSE grown,
                           ptr |-> new_ptr]
                 ELSE [st |-> st, ptr |-> NULL]

\* result: the state and the returned pointer
memReallocEx(st, old_ptr, old_size, new_size, alignment, cp) ==
    LET a == st.arena
    IN  IF ~(old_ptr = NULL \/ old_size # 0)
        THEN [st |-> [st EXCEPT !.failed = "assert_old_state"], ptr |-> NULL]
        ELSE IF ~(new_size # 0 \/ old_ptr # NULL)
        THEN [st |-> [st EXCEPT !.failed = "assert_new_request"], ptr |-> NULL]
        ELSE IF isLastAlloc(a, old_ptr, old_size)
        THEN IF new_size <= old_size
             THEN [st |-> [st EXCEPT !.arena.len = Sub(a.len, Sub(old_size, new_size))],
                   ptr |-> old_ptr]
             ELSE IF Sub(a.cap, a.len) >= Sub(new_size, old_size)
             THEN [st |-> memCommit([st EXCEPT !.arena.len =
                                        Add(a.len, Sub(new_size, old_size))]),
                   ptr |-> old_ptr]
             ELSE [st |-> st, ptr |-> NULL]
        ELSE LET offset == memAlignForward(a.len, alignment)
             IN  IF offset <= a.cap /\ Sub(a.cap, offset) >= new_size
                 THEN LET new_ptr == Add(a.ptr, offset)
                          grown == memCommit([st EXCEPT !.arena.len = Add(offset, new_size)])
                      IN  [st |-> IF old_ptr # NULL
                                  THEN memcpy(grown, new_ptr, old_ptr, new_size, cp)
                                  ELSE grown,
                           ptr |-> new_ptr]
                 ELSE [st |-> st, ptr |-> NULL]

\* the end of memBufRealloc: *buf_ptr and *cap_ptr are written when the arena
\* returned a block; they keep buf_ptr and old_cap otherwise
memBufStore(r, buf_ptr, old_cap, new_cap) ==
    IF r.st.failed # "none" \/ r.ptr = NULL
    THEN [st |-> r.st, ptr |-> buf_ptr, cap |-> old_cap, ret |-> FALSE]
    ELSE [st |-> r.st, ptr |-> r.ptr, cap |-> new_cap, ret |-> TRUE]

memBufAlign(item_size) ==
    IF item_size > MEM_ALIGN_MAX THEN MEM_ALIGN_MAX ELSE ceilPowerOf2(item_size)

\* memBufRealloc that asks for exactly the requested capacity
memBufRealloc_exact(st, buf_ptr, cur_cap, req_cap, item_size, arena_given, cp) ==
    IF req_cap <= cur_cap
    THEN [st |-> st, ptr |-> buf_ptr, cap |-> cur_cap, ret |-> TRUE]
    ELSE IF ~arena_given
    THEN [st |-> st, ptr |-> buf_ptr, cap |-> cur_cap, ret |-> FALSE]
    ELSE memBufStore(memReallocEx(st, buf_ptr, Mul(cur_cap, item_size),
                                  Mul(req_cap, item_size),
                                  memBufAlign(item_size), cp),
                     buf_ptr, cur_cap, req_cap)

\* memBufRealloc that stores the new capacity before it looks at the result
memBufRealloc_early(st, buf_ptr, cur_cap, req_cap, item_size, arena_given, cp) ==
    IF req_cap <= cur_cap
    THEN [st |-> st, ptr |-> buf_ptr, cap |-> cur_cap, ret |-> TRUE]
    ELSE IF ~arena_given
    THEN [st |-> st, ptr |-> buf_ptr, cap |-> cur_cap, ret |-> FALSE]
    ELSE memBufStore(memReallocEx(st, buf_ptr, Mul(cur_cap, item_size),
                                  Mul(ceilPowerOf2(req_cap), item_size),
                                  memBufAlign(item_size), cp),
                     buf_ptr, ceilPowerOf2(req_cap), ceilPowerOf2(req_cap))

\* memBufRealloc that does not look at the arena pointer
memBufRealloc_anyArena(st, buf_ptr, cur_cap, req_cap, item_size, arena_given, cp) ==
    IF req_cap <= cur_cap
    THEN [st |-> st, ptr |-> buf_ptr, cap |-> cur_cap, ret |-> TRUE]
    ELSE memBufStore(memReallocEx(st, buf_ptr, Mul(cur_cap, item_size),
                                  Mul(ceilPowerOf2(req_cap), item_size),
                                  memBufAlign(item_size), cp),
                     buf_ptr, cur_cap, ceilPowerOf2(req_cap))

\* arena_given is FALSE when mem is a NULL pointer; result: the state, *buf_ptr, *cap_ptr
\* and the return value
memBufRealloc(st, buf_ptr, cur_cap, req_cap, item_size, arena_given, cp) ==
    IF req_cap <= cur_cap
    THEN [st |-> st, ptr |-> buf_ptr, cap |-> cur_cap, ret |-> TRUE]
    ELSE IF ~arena_given
    THEN [st |-> st, ptr |-> buf_ptr, cap |-> cur_cap, ret |-> FALSE]
    ELSE IF ceilPowerOf2(req_cap) = 0
    THEN [st |-> [st EXCEPT !.failed = "assert_capacity"],
          ptr |-> buf_ptr, cap |-> cur_cap, ret |-> FALSE]
    ELSE memBufStore(memReallocEx(st, buf_ptr, Mul(cur_cap, item_size),
                                  Mul(ceilPowerOf2(req_cap), item_size),
                                  memBufAlign(item_size), cp),
                     buf_ptr, cur_cap, ceilPowerOf2(req_cap))

\* the buffer after memBufRealloc wrote its pointer and capacity
memBufOut(r, buf) ==
    [st |-> r.st, buf |-> [buf EXCEPT !.ptr = r.ptr, !.cap = r.cap], ret |-> r.ret]

\* memBufEnsure(buf, total, mem); result: the state, the buffer, the return value
memBufEnsure(st, buf, total, arena_given, cp) ==
    memBufOut(memBufRealloc(st, buf.ptr, buf.cap, total, ItemSize, arena_given, cp),
              buf)

\* the result of a store into the buffer: a fault, or the buffer with its new
\* length
bufStored(w, buf, len) ==
    IF w.failed # "none"
    THEN [st |-> w, buf |-> buf, ret |-> FALSE]
    ELSE [st |-> w, buf |-> [buf EXCEPT !.len = len], ret |-> TRUE]

\* (buf)->ptr[(buf)->len++] = (item), true, after the reservation r
bufPushItem(r, len, item) ==
    IF ~r.ret THEN r
    ELSE bufStored(StoreItem(r.st, r.buf.ptr + len * ItemSize, item), r.buf, len + 1)

\* bufPush(buf, item, mem)
bufPush(st, buf, item, arena_given, cp) ==
    bufPushItem(memBufEnsure(st, buf, Add(buf.len, 1), arena_given, cp), buf.len, item)

\* (buf)->ptr[at] = item, after the move
memBufPut(moved, ptr, item) ==
    IF moved.failed # "none" THEN moved ELSE StoreItem(moved, ptr, item)

\* memBufMove(buf, at, at + 1, ++len - 1 + at), (buf)->ptr[at] = item, true,
\* after the reservation r; len is the length before the call
memBufInsertItem(r, len, at, item) ==
    IF ~r.ret THEN r
    ELSE bufStored(memBufPut(memMove(r.st, r.buf.ptr + at * ItemSize,
                                     r.buf.ptr + (at + 1) * ItemSize,
                                     ItemSize * ((len + 1) - 1 + at)),
                             r.buf.ptr + at * ItemSize, item),
                   r.buf, len + 1)

\* memBufInsert(buf, item, at, mem)
memBufInsert(st, buf, item, at, arena_given, cp) ==
    IF ~(at <= buf.len) THEN [st |-> st, buf |-> buf, ret |-> FALSE]
    ELSE memBufInsertItem(memBufEnsure(st, buf, Add(buf.len, 1), arena_given, cp),
                          buf.len, at, item)

\* the program that uses no buffer
NoBuffers ==
    /\ arena = NoArena
    /\ heap = EmptyHeap
    /\ bufs = [b \in BufIds |-> NullBuf]
    /\ asked = [b \in BufIds |-> 0]
    /\ NoHelpers

\* ------------------------------------------------------------ input domains
\* lengths at and next to the page size
PageSizes == {1, MEM_PAGE_SIZE, MEM_PAGE_SIZE + 1}

\* a length whose sum with a small offset wraps around the machine word
HugeLen == SIZE_MAX - 3

Lens == PageSizes \cup {0}

WideLens == Lens \cup {HugeLen}

Aligns == {1, 8}

\* MemArenaInfo with exactly one of total_size / available_size given
Infos ==
    {[total_size |-> 0, available_size |-> a, unsafe |-> u] :
        a \in {MaxPages * MEM_PAGE_SIZE + d : d \in {0, 1}}, u \in BOOLEAN}
    \cup
    {[total_size |-> t, available_size |-> 0, unsafe |-> u] :
        t \in {MEM_PAGE_SIZE, (MaxPages + 1) * MEM_PAGE_SIZE}, u \in BOOLEAN}

\* ---------------------------------------------------------------- the caller
State ==
    [mem |-> mem, reserved |-> reserved, bytes |-> bytes, failed |-> failed,
     decommit |-> FALSE, touched |-> {}]

Live == {alive[i] : i \in 1 .. Len(alive)}

\* the block is the most recent live allocation
IsTop(s) == alive # <<>> /\ alive[Len(alive)] = s

\* the call before was the successful memAlloc of this block
Fresh(s) == last.op = "alloc" /\ last.ret /\ last.slot = s

\* the call before was a memFree of a live block that returned false
Leak == last.op = "free" /\ ~last.ret /\ failed = "none" /\ last.slot \in Live

Remove(seq, s) == SelectSeq(seq, LAMBDA x : x # s)

Init ==
    \E info \in Infos :
        LET r == memReserve(info)
        IN  /\ mem = r.mem
            /\ reserved = r.reserved
            /\ bytes = {}
            /\ blocks = [s \in Slots |-> NullBlock]
            /\ alive = <<>>
            /\ failed = "none"
            /\ last = [op |-> "reserve", slot |-> 0, ret |-> TRUE, leak |-> FALSE,
                       decommit |-> FALSE]
            /\ NoBuffers

Commit(st) ==
    /\ mem' = st.mem
    /\ bytes' = st.bytes
    /\ failed' = st.failed
    /\ UNCHANGED <<reserved, arena, heap, bufs, asked, zbuf, call>>

\* block = memAlloc(mem, len, alignment), into the caller's first variable that
\* holds no live block
Alloc(s, len, alignment) ==
    /\ failed = "none"
    /\ s \notin Live
    /\ \A t \in Slots : t < s => t \in Live
    /\ LET r == memAlloc(State, len, alignment)
           ok == r.st.failed = "none" /\ r.block.ptr # NULL
       IN  /\ Commit(r.st)
           /\ blocks' = IF r.st.failed = "none"
                        THEN [blocks EXCEPT ![s] = r.block] ELSE blocks
           /\ alive' = IF ok THEN Append(alive, s) ELSE alive
           /\ last' = [op |-> "alloc", slot |-> s, ret |-> ok, leak |-> FALSE,
                       decommit |-> r.st.decommit]

\* memFree(mem, &block)
Free(s) ==
    /\ failed = "none"
    /\ LET r == memFree(State, blocks[s])
       IN  /\ Commit(r.st)
           /\ blocks' = [blocks EXCEPT ![s] = r.block]
           /\ alive' = IF r.ret THEN Remove(alive, s) ELSE alive
           /\ last' = [op |-> "free", slot |-> s, ret |-> r.ret, leak |-> FALSE,
                       decommit |-> r.st.decommit]

\* memResize(mem, &block, new_len)
Resize(s, new_len) ==
    /\ failed = "none"
    /\ LET r == memResize(State, blocks[s], new_len)
       IN  /\ Commit(r.st)
           /\ blocks' = [blocks EXCEPT ![s] = r.block]
           /\ alive' = IF r.ret /\ new_len = 0 THEN Remove(alive, s) ELSE alive
           /\ last' = [op |-> "resize", slot |-> s, ret |-> r.ret, leak |-> FALSE,
                       decommit |-> r.st.decommit]

\* memClear(mem); every block is invalid afterwards and the caller drops them
Clear ==
    /\ failed = "none"
    /\ LET st == memClear(State)
       IN  /\ Commit(st)
           /\ last' = [op |-> "clear", slot |-> 0, ret |-> TRUE, leak |-> Leak,
                       decommit |-> st.decommit]
    /\ alive' = <<>>
    /\ blocks' = [s \in Slots |-> NullBlock]

\* the caller stores a non-zero byte at the first byte of a live block
Write(s) ==
    /\ failed = "none"
    /\ s \in Live
    /\ Cardinality(bytes) < MaxDirty
    /\ LET off == Sub(blocks[s].ptr, mem.ptr)
       IN  /\ off < mem.commit
           /\ off \notin bytes
           /\ bytes' = bytes \cup {off}
    /\ UNCHANGED <<mem, reserved, blocks, alive, failed, arena, heap, bufs, asked, zbuf, call>>
    /\ last' = [op |-> "write", slot |-> s, ret |-> TRUE, leak |-> FALSE,
                decommit |-> FALSE]

Next ==
    \/ \E s \in Slots, len \in Lens, a \in Aligns : Alloc(s, len, a)
    \/ \E s \in Slots : Free(s)
    \/ \E s \in Slots, new_len \in Lens : Resize(s, new_len)
    \/ Clear
    \/ \E s \in Slots : Write(s)

Spec == Init /\ [][Next]_vars

\* the same caller, also asking for lengths next to the largest size_t
NextWide ==
    \/ \E s \in Slots, len \in WideLens, a \in Aligns : Alloc(s, len, a)
    \/ \E s \in Slots : Free(s)
    \/ \E s \in Slots, new_len \in WideLens : Resize(s, new_len)
    \/ Clear
    \/ \E s \in Slots : Write(s)

SpecWide == Init /\ [][NextWide]_vars

\* ------------------------------------------------- the call of memReserve
\* no arena: the program before memReserve, and the handle NULL
NullArena == [ptr |-> NULL, cap |-> 0, len |-> 0, commit |-> 0, flags |-> 0]

\* what the OS answers to the two VirtualAlloc calls of memReserve
OsOutcomes == {"ok", "no_reserve", "no_commit"}

\* also a total_size below one page
ReserveInfos ==
    Infos \cup
    {[total_size |-> MEM_PAGE_SIZE \div 2, available_size |-> 0, unsafe |-> u] :
        u \in BOOLEAN}

Start ==
    /\ mem = NullArena
    /\ reserved = 0
    /\ bytes = {}
    /\ blocks = [s \in Slots |-> NullBlock]
    /\ alive = <<>>
    /\ failed = "none"
    /\ last = [op |-> "start", slot |-> 0, ret |-> TRUE, leak |-> FALSE,
               decommit |-> FALSE]
    /\ NoBuffers

\* mem = memReserve(&info), with the OS answering os
Reserve(info, os) ==
    /\ failed = "none"
    /\ last.op = "start"
    /\ LET r == memReserve(info)
       IN  IF os = "no_reserve"
           THEN \* VirtualAlloc(MEM_RESERVE) returned NULL: return NULL
                /\ mem' = NullArena
                /\ reserved' = 0
                /\ failed' = "none"
           ELSE IF os = "no_commit"
           THEN \* commit(block): MEM_ASSERT(result) fails
                /\ mem' = NullArena
                /\ reserved' = r.reserved
                /\ failed' = "assert_commit"
           ELSE /\ mem' = r.mem
                /\ reserved' = r.reserved
                /\ failed' = "none"
    /\ last' = [op |-> "reserve", slot |-> 0, ret |-> os = "ok", leak |-> FALSE,
                decommit |-> FALSE]
    /\ UNCHANGED <<bytes, blocks, alive, arena, heap, bufs, asked, zbuf, call>>

\* the caller goes on only with a handle
NextReserve ==
    \/ \E info \in ReserveInfos, os \in OsOutcomes : Reserve(info, os)
    \/ mem.ptr # NULL /\ Next

SpecReserve == Start /\ [][NextReserve]_vars

\* ------------------------------------------------ the caller of the buffers
\* the state threaded through the functions of mem.h, with the arena offsets of
\* the items a call wrote
BufState ==
    [arena |-> arena, heap |-> heap, reserved |-> reserved, failed |-> failed,
     wrote |-> {}]

\* the orders in which memcpy may copy
CopyOrders == {"forward", "backward"}

\* memBootstrap(total_size) for whole pages
BootSizes == {p * PAGE_SIZE : p \in 1 .. BufPages}

\* the block the caller allocates first, as main does: one that leaves room for
\* four items in the first page, or one that ends in the second page
FirstRaws == {PAGE_SIZE - ARENA_SIZE - 4 * ItemSize, PAGE_SIZE + ItemSize}

\* the bytes the caller allocates later
NextRaw == 1

\* totals asked of memBufEnsure: none, a total that is no power of two, and one
\* more than the buffer is ever filled with
Totals == {0, 3, MaxLen + 1}

\* the item the caller stores next in buffer b: its running count, never zero
Item(b) == 16 * b + bufs[b].len + 1

\* the buffer's block is the last allocation of the arena
BufLast(b) == isLastAlloc(arena, bufs[b].ptr, Mul(bufs[b].cap, ItemSize))

Max(x, y) == IF x >= y THEN x ELSE y

\* item i of buffer b
Elem(b, i) == Peek(heap, (bufs[b].ptr - arena.ptr) + i * ItemSize)

\* the buffer holds what the caller pushed, in order, and nothing was inserted
Pushed(b) == \A i \in 0 .. bufs[b].len - 1 : Elem(b, i) = 16 * b + i + 1

InitBuf ==
    \E total \in BootSizes :
        LET r == memBootstrap(total)
        IN  /\ arena = r.arena
            /\ reserved = r.reserved
            /\ heap = EmptyHeap
            /\ bufs = [b \in BufIds |-> NullBuf]
            /\ asked = [b \in BufIds |-> 0]
            /\ NoHelpers
            /\ mem = NullArena
            /\ bytes = {}
            /\ blocks = [s \in Slots |-> NullBlock]
            /\ alive = <<>>
            /\ failed = "none"
            /\ last = [op |-> "bootstrap", slot |-> 0, ret |-> TRUE, leak |-> FALSE,
                       decommit |-> FALSE]

CommitBuf(st) ==
    /\ arena' = st.arena
    /\ heap' = st.heap
    /\ failed' = st.failed
    /\ UNCHANGED <<reserved, mem, bytes, blocks, alive, zbuf, call>>

\* a request for total items that succeeded is remembered
Asked(b, total, ok) ==
    asked' = IF ok THEN [asked EXCEPT ![b] = Max(@, total)] ELSE asked

\* the caller's variables after a call on buffer b that returned r; ok tells
\* whether the reservation of total items succeeded
Called(op, b, r, total, ok) ==
    /\ CommitBuf(r.st)
    /\ bufs' = [bufs EXCEPT ![b] = r.buf]
    /\ Asked(b, total, ok)
    /\ last' = [op |-> op, slot |-> b, ret |-> r.ret, leak |-> FALSE,
                decommit |-> FALSE]

\* bufPush(&buf, item, mem)
Push(b, cp) ==
    /\ failed = "none"
    /\ bufs[b].len < MaxLen
    /\ Called("push", b, bufPush(BufState, bufs[b], Item(b), TRUE, cp),
              bufs[b].len + 1,
              memBufEnsure(BufState, bufs[b], bufs[b].len + 1, TRUE, cp).ret)

\* memBufInsert(&buf, item, at, mem), into a buffer filled by bufPush as in main
Insert(b, at, cp) ==
    /\ failed = "none"
    /\ bufs[b].len < MaxLen
    /\ Pushed(b)
    /\ Called("insert", b, memBufInsert(BufState, bufs[b], Item(b), at, TRUE, cp),
              bufs[b].len + 1,
              at <= bufs[b].len
                  /\ memBufEnsure(BufState, bufs[b], bufs[b].len + 1, TRUE, cp).ret)

\* memBufEnsure(&buf, total, mem), with mem a NULL pointer when ~given
Ensure(b, total, given, cp) ==
    /\ failed = "none"
    /\ Called("ensure", b, memBufEnsure(BufState, bufs[b], total, given, cp),
              total, memBufEnsure(BufState, bufs[b], total, given, cp).ret)

\* memAllocEx(mem, size, 1) of a block of bytes: a first block at the start of
\* the arena, or a byte behind a buffer that is full
Raw(size) ==
    /\ failed = "none"
    /\ \/ arena.len = 0 /\ size \in FirstRaws
       \/ size = NextRaw /\ \E b \in BufIds : BufLast(b) /\ bufs[b].len = bufs[b].cap
    /\ LET r == memReallocEx(BufState, NULL, 0, size, 1, "forward")
       IN  /\ CommitBuf(r.st)
           /\ last' = [op |-> "raw", slot |-> 0, ret |-> r.ptr # NULL, leak |-> FALSE,
                       decommit |-> FALSE]
    /\ UNCHANGED <<bufs, asked>>

NextBuf ==
    \/ \E b \in BufIds, cp \in CopyOrders : Push(b, cp)
    \/ \E b \in BufIds, at \in 0 .. MaxLen, cp \in CopyOrders : Insert(b, at, cp)
    \/ \E b \in BufIds, total \in Totals, given \in BOOLEAN, cp \in CopyOrders :
          Ensure(b, total, given, cp)
    \/ \E size \in FirstRaws \cup {NextRaw} : Raw(size)

SpecBuf == InitBuf /\ [][NextBuf]_vars

\* ===================================================================== claims
\* offset of a block inside the arena m
Off(m, b) == b.ptr - m.ptr

Safe == BitAnd(mem.flags, MEM_FLAG_UNSAFE) = 0

\* C1: after every call, 0 <= length <= committed <= capacity.
C1_LenCommitCap ==
    /\ 0 <= mem.len
    /\ mem.len <= mem.commit
    /\ mem.commit <= mem.cap

\* C2: every byte of the arena in [length, committed) is zero.
C2_TailZero ==
    \A o \in bytes : ~(mem.len <= o /\ o < mem.commit)

\* C3: a successful Allocate hands out a block whose bytes are all zero, and the
\* check of the block's first byte in memAlloc never fails.
C3_AllocZeroed ==
    last.op = "alloc" =>
        /\ failed # "assert_zero"
        /\ last.ret =>
              LET b == blocks[last.slot]
              IN  \A o \in bytes : ~(Off(mem, b) <= o /\ o < Off(mem, b) + b.len)

\* C4: a successful Allocate(n, a) returns a block at a multiple of a, of length
\* n, that starts at or after the previous length boundary and ends exactly at
\* the new length boundary, which is <= capacity.
C4_AllocPlacement ==
    [][\A s \in Slots, n \in WideLens, a \in Aligns :
          (Alloc(s, n, a) /\ last'.ret) =>
              /\ blocks'[s].ptr % a = 0
              /\ blocks'[s].len = n
              /\ Off(mem, blocks'[s]) >= mem.len
              /\ Off(mem, blocks'[s]) + n = mem'.len
              /\ mem'.len <= mem'.cap]_vars

\* start offset Allocate(len, a) gives a block in the arena
AlignedStart(a) == alignForward(mem.ptr + mem.len, a) - mem.ptr

\* C5: Allocate(len, a) returns a null block exactly when len = 0 or the aligned
\* start offset plus len exceeds capacity, and a failed Allocate changes neither
\* length, committed nor capacity.
C5_AllocFails ==
    [][\A s \in Slots, n \in WideLens, a \in Aligns :
          (Alloc(s, n, a) /\ failed' = "none") =>
              /\ blocks'[s].ptr = NULL <=> (n = 0 \/ AlignedStart(a) + n > mem.cap)
              /\ blocks'[s].ptr = NULL => mem' = mem]_vars

\* C6: Free returns true iff the block is the most recent live allocation; on any
\* other block it returns false and leaves length and the descriptor unchanged.
C6_FreeIffMostRecent ==
    [][\A s \in Slots :
          Free(s) =>
              /\ last'.ret <=> IsTop(s)
              /\ ~IsTop(s) => (mem'.len = mem.len /\ blocks'[s] = blocks[s])]_vars

\* C7: Free of the block returned by the immediately preceding successful
\* Allocate returns true, retracts length by the block's length and nulls the
\* caller's descriptor.
C7_FreeFresh ==
    [][\A s \in Slots :
          (Free(s) /\ Fresh(s)) =>
              /\ last'.ret
              /\ mem'.len = mem.len - blocks[s].len
              /\ blocks'[s] = NullBlock]_vars

\* C8: on the last allocation, Resize to a smaller length succeeds and Available()
\* grows by the shrink amount; Resize to a larger length succeeds iff the growth
\* is <= Available(), keeping the address and growing the length by the growth.
C8_ResizeLast ==
    [][\A s \in Slots, new \in WideLens :
          (Resize(s, new) /\ lastAlloc(mem, blocks[s])) =>
              LET old == blocks[s].len
              IN  IF new < old
                  THEN /\ last'.ret
                       /\ memAvailable(mem') = memAvailable(mem) + (old - new)
                  ELSE /\ last'.ret <=> (new - old <= memAvailable(mem))
                       /\ last'.ret =>
                             /\ new > 0 => blocks'[s].ptr = blocks[s].ptr
                             /\ blocks'[s].len = old + (new - old)
                             /\ mem'.len = mem.len + (new - old)]_vars

\* C9: a Resize that returns false leaves the descriptor, length and committed
\* unchanged.
C9_ResizeFailFrame ==
    [][(last'.op = "resize" /\ ~last'.ret /\ failed' = "none") =>
          /\ blocks'[last'.slot] = blocks[last'.slot]
          /\ mem'.len = mem.len
          /\ mem'.commit = mem.commit]_vars

\* after a Resize of the last allocation that was refused: the growth did not fit
C9_Witness ==
    /\ last.op = "resize" /\ ~last.ret /\ failed = "none"
    /\ lastAlloc(mem, blocks[last.slot])
    /\ mem.len > 0

\* C10: after Clear length is 0, capacity is unchanged, Available() is capacity,
\* and in safe mode committed is 0.
C10_Clear ==
    [][last'.op = "clear" =>
          /\ mem'.len = 0
          /\ mem'.cap = mem.cap
          /\ memAvailable(mem') = mem.cap
          /\ Safe => mem'.commit = 0]_vars

\* after a Clear in safe mode that followed a Free which failed and leaked its block
C10_Witness ==
    /\ last.op = "clear" /\ last.leak
    /\ Safe
    /\ mem.len = 0 /\ mem.commit = 0

\* calls that go through adjustCommited
ArenaOps == {"alloc", "free", "resize", "clear"}

\* C11: in safe mode, after every successful Allocate, Free, Resize and Clear,
\* committed equals length rounded up to the next multiple of the page size.
C11_SafeCommit ==
    (Safe /\ failed = "none" /\ last.op \in ArenaOps /\ last.ret) =>
        mem.commit = PageCeil(mem.len)

\* after a Free in safe mode that gave a page back and left an older block
C11_Witness ==
    /\ Safe /\ failed = "none"
    /\ last.op = "free" /\ last.ret /\ last.decommit
    /\ mem.len > 0
    /\ mem.commit = PageCeil(mem.len)

\* C12: in unsafe mode committed never decreases across Allocate, Free, Resize
\* and Clear, and none of them issues an OS decommit call.
C12_UnsafeKeeps ==
    [][(~Safe /\ last'.op \in ArenaOps) =>
          /\ mem'.commit >= mem.commit
          /\ ~last'.decommit]_vars

\* after a Free or Clear in unsafe mode that left committed above the rounded length
C12_Witness ==
    /\ ~Safe /\ failed = "none"
    /\ last.op \in {"free", "clear"} /\ last.ret /\ ~last.decommit
    /\ mem.commit > PageCeil(mem.len)

\* C13: Reserve returns no handle both when the OS refuses to reserve the range
\* and when it refuses to commit the metadata page; it neither aborts nor hands
\* back an arena.
C13_ReserveNull ==
    [][\A info \in ReserveInfos, os \in {"no_reserve", "no_commit"} :
          Reserve(info, os) =>
              /\ failed' = "none"
              /\ mem'.ptr = NULL
              /\ ~last'.ret]_vars

\* C14: after a successful Reserve given exactly one of total_size and
\* available_size, length and committed are 0 and capacity plus one page equals
\* the total size, so capacity is at most the reserved range minus the metadata
\* page.
C14_ReserveSizes ==
    [][\A info \in ReserveInfos :
          Reserve(info, "ok") =>
              LET total == IF info.total_size = 0
                           THEN info.available_size + MEM_PAGE_SIZE
                           ELSE info.total_size
              IN  /\ mem'.len = 0
                  /\ mem'.commit = 0
                  /\ mem'.cap + MEM_PAGE_SIZE = total
                  /\ mem'.cap <= reserved' - MEM_PAGE_SIZE]_vars

\* the block lies inside [0, capacity) of the arena m
Inside(m, b) == 0 <= Off(m, b) /\ Off(m, b) + b.len <= m.cap

Disjoint(b, c) == b.ptr + b.len <= c.ptr \/ c.ptr + c.len <= b.ptr

\* C20: the blocks handed out and not yet freed or cleared occupy pairwise
\* disjoint byte ranges inside [0, capacity), and no Allocate, Free or Resize of
\* another block changes the address or length of a live block.
C20_LiveBlocks ==
    [][/\ \A s \in Live' :
             /\ Inside(mem', blocks'[s])
             /\ \A t \in Live' \ {s} : Disjoint(blocks'[s], blocks'[t])
       /\ \A s \in Live \cap Live' :
             s # last'.slot => blocks'[s] = blocks[s]]_vars

\* ------------------------------------------------------------------ buffers
Pow2s == {2 ^ k : k \in 0 .. WordBits - 1}

\* the smallest power of two >= n
Pow2Ceil(n) == CHOOSE p \in Pow2s : p >= n /\ \A q \in Pow2s : q >= n => p <= q

AlignUp(n, a) == ((n + a - 1) \div a) * a

\* the arena has room for the growth step that one more item of buffer b needs
Room(b) ==
    LET bf == bufs[b]
        nc == Pow2Ceil(bf.len + 1)
    IN  \/ bf.len + 1 <= bf.cap
        \/ IF BufLast(b)
           THEN arena.len + (nc - bf.cap) * ItemSize <= arena.cap
           ELSE AlignUp(arena.len, ItemSize) + nc * ItemSize <= arena.cap

\* C15: pushing items onto an empty Buffer in an arena with room for every growth
\* step yields length N with element i the i-th pushed item: each push onto a
\* buffer holding the pushed items succeeds, adds one to the length and leaves
\* the buffer holding the pushed items.
C15_PushRoundTrip ==
    [][\A b \in BufIds, cp \in CopyOrders :
          (Push(b, cp) /\ Pushed(b) /\ Room(b)) =>
              /\ failed' = "none"
              /\ last'.ret
              /\ bufs'[b].len = bufs[b].len + 1
              /\ Pushed(b)']_vars

\* C16: after any sequence of EnsureCapacity, Push and Insert calls length <=
\* capacity, and capacity is 0 or a power of two, the smallest one >= the largest
\* total ever successfully requested.
C16_Capacity ==
    \A b \in BufIds :
        /\ bufs[b].len <= bufs[b].cap
        /\ bufs[b].cap = IF asked[b] = 0 THEN 0 ELSE Pow2Ceil(asked[b])

\* after a request that failed on a buffer that grew to a total of 3 before
C16_Witness ==
    /\ last.op = "ensure" /\ ~last.ret /\ failed = "none"
    /\ asked[1] = 3 /\ bufs[1].cap = 4
    /\ arena.len > 0

\* C17: Insert(item, k) with k <= length and a successful reservation leaves the
\* elements before k, puts item at k, moves every old element i >= k to i + 1 and
\* adds one to the length; Insert with k > length returns false and leaves the
\* Buffer and its contents unchanged.
C17_Insert ==
    [][\A b \in BufIds, k \in 0 .. MaxLen, cp \in CopyOrders :
          Insert(b, k, cp) =>
              LET n == bufs[b].len
                  e == memBufEnsure(BufState, bufs[b], n + 1, TRUE, cp)
              IN  IF k <= n
                  THEN (e.ret /\ e.st.failed = "none") =>
                          /\ failed' = "none"
                          /\ last'.ret
                          /\ bufs'[b].len = n + 1
                          /\ \A i \in 0 .. k - 1 : Elem(b, i)' = Elem(b, i)
                          /\ Elem(b, k)' = Item(b)
                          /\ \A i \in k .. n - 1 : Elem(b, i + 1)' = Elem(b, i)
                  ELSE /\ ~last'.ret
                       /\ failed' = "none"
                       /\ bufs' = bufs
                       /\ heap' = heap
                       /\ arena' = arena]_vars

\* C18: when EnsureCapacity or Push fails because the arena is out of space, the
\* Buffer's pointer, length and capacity and the arena's length are unchanged and
\* every stored element still reads as before.
C18_FailedGrowth ==
    [][(last'.op \in {"push", "ensure"} /\ ~last'.ret /\ failed' = "none") =>
          /\ bufs' = bufs
          /\ arena'.len = arena.len
          /\ \A b \in BufIds : \A i \in 0 .. bufs[b].len - 1 :
                /\ Elem(b, i)' = Elem(b, i)
                /\ Accessible(BufState', bufs'[b].ptr + i * ItemSize, ItemSize)]_vars

\* after a Push that found no room behind a full buffer of four pushed items
C18_Witness ==
    /\ last.op = "push" /\ ~last.ret /\ failed = "none"
    /\ bufs[1].len = 4 /\ bufs[1].cap = 4
    /\ Pushed(1)
    /\ ~Room(1)

\* C19: memBufRealloc with a NULL arena allocates nothing: it returns true exactly
\* when the requested capacity is <= the current one, and leaves the buffer's
\* pointer and capacity unchanged.
C19_NullArena ==
    [][\A b \in BufIds, total \in Totals, cp \in CopyOrders :
          Ensure(b, total, FALSE, cp) =>
              /\ last'.ret <=> total <= bufs[b].cap
              /\ bufs'[b].ptr = bufs[b].ptr
              /\ bufs'[b].cap = bufs[b].cap
              /\ arena' = arena
              /\ heap' = heap]_vars

\* after a request that failed although the arena was still empty: it was made
\* with a NULL arena
C19_Witness ==
    /\ last.op = "ensure" /\ ~last.ret /\ failed = "none"
    /\ arena.len = 0

\* ------------------------------------------------------------ stack order
\* C21: blocks can be released in stack order: Free of the most recent live
\* block succeeds, and the Free that releases the oldest block returns the
\* arena's length to 0.  (A block as long as the whole capacity is the subject
\* of C27 and is left out here.)
C21_StackFree ==
    [][\A s \in Slots :
          (Free(s) /\ IsTop(s) /\ blocks[s].len < mem.cap) =>
              /\ last'.ret
              /\ alive' = <<>> => mem'.len = 0]_vars

\* the arena is filled by one block that was allocated from the empty arena
Filled == \E t \in Live : Off(mem, blocks[t]) = 0 /\ blocks[t].len = mem.cap /\ mem.len = mem.cap

\* C22: in an arena whose available size is n, Allocate(n, a) from the empty arena
\* succeeds and leaves Available() = 0, and every following Allocate of a positive
\* size fails and changes neither the length nor the first block's contents.
C22_FilledArena ==
    [][\A s \in Slots, n \in WideLens, a \in Aligns :
          Alloc(s, n, a) =>
              /\ (mem.len = 0 /\ n = mem.cap /\ n > 0) =>
                    (last'.ret /\ memAvailable(mem') = 0)
              /\ (Filled /\ n > 0) =>
                    /\ failed' = "none"
                    /\ ~last'.ret
                    /\ mem'.len = mem.len
                    /\ bytes' = bytes]_vars

\* ------------------------------------------------------------- assertions
\* C26: memResize of the last allocation to a non-zero length that fits never
\* fails an internal assertion, whatever the caller stored in the block.
C26_ResizeNoAssert ==
    [][\A s \in Slots, new_len \in Lens :
          (/\ Resize(s, new_len)
           /\ lastAlloc(mem, blocks[s])
           /\ new_len # 0
           /\ new_len <= blocks[s].len + memAvailable(mem)) =>
              failed' = "none"]_vars

\* C27: Free of a last allocation as long as the arena's whole capacity returns
\* true and resets the length to 0 without failing an internal assertion.
C27_FreeWholeArena ==
    [][\A s \in Slots :
          (Free(s) /\ lastAlloc(mem, blocks[s]) /\ blocks[s].len = mem.cap) =>
              /\ failed' = "none"
              /\ last'.ret
              /\ mem'.len = 0]_vars

\* ----------------------------------------------------- invalid alignments
\* alignments that are no power of two
BadAligns == {0, 3}

\* the caller of Spec, also passing invalid alignments to memAlloc
NextAlign ==
    \/ Next
    \/ \E s \in Slots, len \in Lens, a \in BadAligns : Alloc(s, len, a)

SpecAlign == Init /\ [][NextAlign]_vars

\* C29: every alignment that is no power of two, 0 included, passed to Allocate
\* is rejected by the alignment assertion before any arena state changes; none
\* is silently accepted or rounded.
C29_AlignRejected ==
    [][\A s \in Slots, len \in Lens, a \in BadAligns :
          Alloc(s, len, a) =>
              /\ failed' = "assert_alignment"
              /\ mem' = mem
              /\ bytes' = bytes]_vars

\* ------------------------------------------- the generic reallocation helper
\* MEM_ASSERT(block.len || !block.ptr) and the return value of memReallocEx
memReallocRet(st, block) ==
    IF st.failed # "none" THEN [st |-> st, ptr |-> NULL]
    ELSE IF ~(block.len # 0 \/ block.ptr = NULL)
    THEN [st |-> [st EXCEPT !.failed = "assert_block"], ptr |-> NULL]
    ELSE [st |-> st, ptr |-> block.ptr]

\* memFree(mem, &block); block = memAlloc(mem, new_len, item_align), after the
\* memResize that returned rs
memReallocMove(rs, new_len, item_align) ==
    IF rs.st.failed # "none" \/ rs.ret THEN rs
    ELSE IF memFree(rs.st, rs.block).st.failed # "none"
    THEN [st |-> memFree(rs.st, rs.block).st, block |-> rs.block, ret |-> FALSE]
    ELSE [st |-> memAlloc(memFree(rs.st, rs.block).st, new_len, item_align).st,
          block |-> memAlloc(memFree(rs.st, rs.block).st, new_len, item_align).block,
          ret |-> FALSE]

\* memReallocEx(mem, item_size, item_align, old_ptr, old_count, new_count) of the
\* MemBlock version: resize in place, else free and allocate; result: the state
\* and the returned pointer
memReallocItems(st, item_size, item_align, old_ptr, old_count, new_count) ==
    memReallocRet(
        memReallocMove(memResize(st, [ptr |-> old_ptr, len |-> Mul(old_count, item_size)],
                                 Mul(new_count, item_size)),
                       Mul(new_count, item_size), item_align).st,
        memReallocMove(memResize(st, [ptr |-> old_ptr, len |-> Mul(old_count, item_size)],
                                 Mul(new_count, item_size)),
                       Mul(new_count, item_size), item_align).block)

\* the caller's variables after memReallocEx returned r for the block in s: a
\* block that moved is the most recent one, a null result leaves the caller with
\* the block it had
Reallocated(s, r, new_len) ==
    /\ Commit(r.st)
    /\ blocks' = IF r.st.failed = "none" /\ (r.ptr # NULL \/ new_len = 0)
                 THEN [blocks EXCEPT ![s] = [ptr |-> r.ptr, len |-> new_len]]
                 ELSE blocks
    /\ alive' = IF r.st.failed # "none" THEN alive
                ELSE IF new_len = 0 THEN Remove(alive, s)
                ELSE IF r.ptr # NULL /\ r.ptr # blocks[s].ptr
                THEN Append(Remove(alive, s), s)
                ELSE alive
    /\ last' = [op |-> "realloc", slot |-> s,
                ret |-> r.st.failed = "none" /\ r.ptr # NULL,
                leak |-> FALSE, decommit |-> r.st.decommit]

\* ptr = memReallocEx(mem, 1, item_align, block.ptr, block.len, new_count) on a
\* live block of bytes that is the arena's last allocation
Realloc(s, new_count, item_align) ==
    /\ failed = "none"
    /\ s \in Live
    /\ lastAlloc(mem, blocks[s])
    /\ Reallocated(s, memReallocItems(State, 1, item_align, blocks[s].ptr,
                                      blocks[s].len, new_count),
                   new_count)

NextRealloc ==
    \/ Next
    \/ \E s \in Slots, new_count \in Lens, a \in Aligns : Realloc(s, new_count, a)

SpecRealloc == Init /\ [][NextRealloc]_vars

\* C30: when the reallocation helper (resize, else free then allocate) returns
\* null for a non-zero target length, the old block is still allocated: the
\* arena's length is unchanged and the old block's bytes are still committed and
\* hold their old values.
C30_ReallocNull ==
    [][\A s \in Slots, new_count \in Lens, a \in Aligns :
          (/\ Realloc(s, new_count, a)
           /\ new_count # 0
           /\ failed' = "none"
           /\ ~last'.ret) =>
              /\ mem'.len = mem.len
              /\ Off(mem, blocks[s]) + blocks[s].len <= mem'.commit
              /\ \A o \in Off(mem, blocks[s]) .. Off(mem, blocks[s]) + blocks[s].len - 1 :
                    o \in bytes' <=> o \in bytes]_vars

\* ------------------------------------------------------------ memRelease
\* the handle: the struct sits in the first page of the reservation, one page
\* before the memory it hands out
Handle(m) == Sub(m.ptr, MEM_PAGE_SIZE)

\* VirtualFree(ptr, 0, MEM_RELEASE) succeeds on the base address of a reservation
\* and gives the whole of it back
VirtualFree(res, ptr) == res # 0 /\ ptr = OS_BASE

\* what is left after memRelease: no arena and `released` calls that released
\* the reservation
Released(st, released) ==
    [st |-> [st EXCEPT !.mem = NullArena, !.reserved = 0, !.bytes = {},
                       !.touched = @ \cup Touch(OS_BASE, st.reserved)],
     released |-> released]

\* decommit((MemBlock){.ptr = mem->ptr, .len = mem->commit}), MEM_ASSERT(result)
memReleaseData(st) ==
    IF ~decommit([ptr |-> st.mem.ptr, len |-> st.mem.commit]) THEN st
    ELSE IF ~commit(st.mem, st.reserved, [ptr |-> st.mem.ptr, len |-> st.mem.commit])
    THEN [st EXCEPT !.failed = "assert_decommit"]
    ELSE [st EXCEPT !.decommit = TRUE,
                    !.touched = @ \cup Touch(st.mem.ptr, st.mem.commit)]

\* memRelease that gives back the memory it hands out, from mem->ptr
memRelease_fromData(st) ==
    IF memReleaseData(st).failed # "none"
    THEN [st |-> memReleaseData(st), released |-> 0]
    ELSE IF ~VirtualFree(st.reserved, st.mem.ptr)
    THEN [st |-> [memReleaseData(st) EXCEPT !.failed = "assert_release"], released |-> 0]
    ELSE Released(memReleaseData(st), 1)

\* result: the state and the number of OS calls that released address space
memRelease(st) ==
    IF memReleaseData(st).failed # "none"
    THEN [st |-> memReleaseData(st), released |-> 0]
    ELSE IF ~VirtualFree(st.reserved, Handle(st.mem))
    THEN [st |-> [memReleaseData(st) EXCEPT !.failed = "assert_release"], released |-> 0]
    ELSE Released(memReleaseData(st), 1)

\* memRelease(mem); the caller has no arena and no block afterwards
Release ==
    /\ failed = "none"
    /\ mem.ptr # NULL
    /\ mem' = memRelease(State).st.mem
    /\ reserved' = memRelease(State).st.reserved
    /\ bytes' = memRelease(State).st.bytes
    /\ failed' = memRelease(State).st.failed
    /\ blocks' = [s \in Slots |-> NullBlock]
    /\ alive' = <<>>
    /\ last' = [op |-> "release", slot |-> 0,
                ret |-> memRelease(State).st.failed = "none",
                leak |-> FALSE, decommit |-> memRelease(State).st.decommit]
    /\ UNCHANGED <<arena, heap, bufs, asked, zbuf, call>>

NextRelease ==
    \/ NextReserve
    \/ Release

SpecRelease == Start /\ [][NextRelease]_vars

\* bytes of the reservation that are committed: the metadata page and the data
\* pages up to committed
OsCommitted == IF reserved = 0 THEN 0 ELSE MEM_PAGE_SIZE + mem.commit

\* C24: after Release no page of the arena's range, neither the data pages up to
\* committed nor the metadata page, remains committed or reserved with the OS,
\* and exactly one OS release call was issued, for the whole range.
C24_Release ==
    [][Release =>
          /\ failed' = "none"
          /\ reserved' = 0
          /\ OsCommitted' = 0
          /\ memRelease(State).released = 1
          /\ Touch(OS_BASE, reserved) \subseteq memRelease(State).st.touched]_vars

\* after the Release of an arena that had committed pages
C24_Witness ==
    /\ last.op = "release" /\ last.ret /\ last.decommit
    /\ reserved = 0
    /\ mem = NullArena

\* the ranges lie inside the data pages of the arena's own reservation
Own(ranges) ==
    \A r \in ranges :
        /\ OS_BASE + MEM_PAGE_SIZE <= r.ptr
        /\ r.ptr + r.len <= OS_BASE + reserved

OldBlocks ==
    {[ptr |-> NULL, size |-> 0]} \cup
    {[ptr |-> bufs[b].ptr, size |-> Mul(bufs[b].cap, ItemSize)] :
        b \in {c \in BufIds : bufs[c].ptr # NULL}}

\* the sizes asked for: those of the buffers, those of the raw blocks, one that
\* no arena holds
NewSizes ==
    {Mul(c, ItemSize) : c \in {0, 1, 2, 4, 8}} \cup FirstRaws \cup {NextRaw, HugeLen}

\* the old block is the last allocation and the new size fits behind its start
FitsInPlace(old, new_size) ==
    /\ isLastAlloc(arena, old.ptr, old.size)
    /\ (old.ptr - arena.ptr) + new_size <= arena.cap

\* there is no room for the request: not in place for the last allocation, not
\* behind the aligned length for any other block
NoRoom(old, new_size, alignment) ==
    IF isLastAlloc(arena, old.ptr, old.size)
    THEN (old.ptr - arena.ptr) + new_size > arena.cap
    ELSE memAlignForward(arena.len, alignment) + new_size > arena.cap

\* what the claim says of the call that returned r
C25_Call(r, old, new_size, alignment) ==
    r.st.failed = "none" =>
        /\ FitsInPlace(old, new_size) => r.ptr = old.ptr
        /\ NoRoom(old, new_size, alignment) => r.ptr = NULL
        /\ r.ptr = NULL => (r.st.arena.len = arena.len /\ r.st.arena.commit = arena.commit)

\* C25: memReallocEx returns the old pointer when the old block is the last
\* allocation and the new size fits, returns NULL when the request cannot be
\* satisfied, and whenever it returns NULL the arena's length and committed size
\* are unchanged.
C25_ReallocEx ==
    \A old \in OldBlocks, new_size \in NewSizes, alignment \in {1, memBufAlign(ItemSize)} :
        C25_Call(memReallocEx(BufState, old.ptr, old.size, new_size, alignment, "forward"),
                 old, new_size, alignment)

\* after a growth of a full buffer that the arena refused: the buffer is the last
\* allocation and there is no room behind it
C25_Witness ==
    /\ last.op = "ensure" /\ ~last.ret /\ failed = "none"
    /\ \E b \in BufIds :
          /\ BufLast(b)
          /\ asked[b] < MaxLen + 1
          /\ NoRoom([ptr |-> bufs[b].ptr, size |-> Mul(bufs[b].cap, ItemSize)],
                    Mul(ceilPowerOf2(MaxLen + 1), ItemSize), memBufAlign(ItemSize))

\* ------------------------------------------------------------ memBufInsert
\* the arena offsets of the slots lo .. hi of the buffer buf
SlotOffsets(buf, lo, hi) ==
    {(buf.ptr - arena.ptr) + i * ItemSize : i \in lo .. hi}

\* what the claim says of the insert at slot `at` into buf that returned r
C28_Call(r, buf, at) ==
    (r.ret /\ r.st.failed = "none") =>
        \A o \in r.st.wrote :
            \* inside the buffer's capacity
            /\ o < (r.buf.ptr - arena.ptr) + r.buf.cap * ItemSize
            \* below the arena's length
            /\ o < r.st.arena.len
            \* a slot in [at, old length], unless the buffer was moved
            /\ r.buf.ptr = buf.ptr => o \in SlotOffsets(buf, at, buf.len)

\* C28: a successful Insert(item, at) reads and writes only the slots with index
\* in [at, old length] of its Buffer: it never writes at or beyond the Buffer's
\* capacity, never writes arena bytes at or beyond the arena's length, and never
\* changes another block or Buffer of the arena.
C28_InsertFrame ==
    [][\A b \in BufIds, at \in 0 .. MaxLen, cp \in CopyOrders :
          Insert(b, at, cp) =>
              C28_Call(memBufInsert(BufState, bufs[b], Item(b), at, TRUE, cp),
                       bufs[b], at)]_vars

\* ------------------------------------------- callers that keep descriptors
\* MemBlock copy = block; memFree(mem, &block): the caller keeps a copy of the
\* descriptor in a variable that holds no live block
FreeKeep(s, t) ==
    /\ failed = "none"
    /\ s \in Live
    /\ t \notin Live
    /\ Commit(memFree(State, blocks[s]).st)
    /\ blocks' = IF memFree(State, blocks[s]).ret
                 THEN [blocks EXCEPT ![s] = NullBlock, ![t] = blocks[s]]
                 ELSE blocks
    /\ alive' = IF memFree(State, blocks[s]).ret THEN Remove(alive, s) ELSE alive
    /\ last' = [op |-> "free", slot |-> s, ret |-> memFree(State, blocks[s]).ret,
                leak |-> FALSE, decommit |-> memFree(State, blocks[s]).st.decommit]

\* memClear(mem) by a caller that keeps its descriptors
ClearKeep ==
    /\ failed = "none"
    /\ alive # <<>>
    /\ Commit(memClear(State))
    /\ last' = [op |-> "clear", slot |-> 0, ret |-> TRUE, leak |-> Leak,
                decommit |-> memClear(State).decommit]
    /\ alive' = <<>>
    /\ UNCHANGED blocks

NextStale ==
    \/ Next
    \/ \E s \in Slots, t \in Slots : FreeKeep(s, t)
    \/ ClearKeep

SpecStale == Init /\ [][NextStale]_vars

\* every live block ends at or below the arena's length
LiveBelowLen ==
    \A t \in Live : Off(mem, blocks[t]) + blocks[t].len <= mem.len

\* C31: Free and Resize succeed only on the descriptor of a currently live block:
\* a retained copy of a descriptor whose block was freed, or was invalidated by
\* Clear, never makes Free or Resize succeed, so a successful Free never retracts
\* the length over bytes of other live blocks.
C31_LiveOnly ==
    [][/\ \A s \in Slots :
             (Free(s) /\ last'.ret) => (s \in Live /\ (LiveBelowLen => LiveBelowLen'))
       /\ \A s \in Slots, new_len \in Lens :
             (Resize(s, new_len) /\ last'.ret) => s \in Live]_vars

\* ------------------------------------------------- growth of a last buffer
\* what the claim says of a call on buffer b that left it with a larger capacity
C32_Grown(b) ==
    (failed' = "none" /\ BufLast(b) /\ bufs'[b].cap > bufs[b].cap) =>
        /\ bufs'[b].ptr = bufs[b].ptr
        /\ arena'.len = arena.len + (bufs'[b].cap - bufs[b].cap) * ItemSize
        /\ BufLast(b)'
        \* memReallocEx(mem, ptr, cap * sizeof(item), 0, align) gives the block back
        /\ memReallocEx(BufState', bufs'[b].ptr, Mul(bufs'[b].cap, ItemSize), 0,
                        memBufAlign(ItemSize), "forward").st.arena.len
               = bufs'[b].ptr - arena'.ptr

TwoBufs == {1, 2}

InitTwo ==
    \E total \in BootSizes :
        /\ arena = memBootstrap(total).arena
        /\ reserved = memBootstrap(total).reserved
        /\ heap = EmptyHeap
        /\ bufs = [b \in TwoBufs |-> NullBuf]
        /\ asked = [b \in TwoBufs |-> 0]
        /\ NoHelpers
        /\ mem = NullArena
        /\ bytes = {}
        /\ blocks = [s \in Slots |-> NullBlock]
        /\ alive = <<>>
        /\ failed = "none"
        /\ last = [op |-> "bootstrap", slot |-> 0, ret |-> TRUE, leak |-> FALSE,
                   decommit |-> FALSE]

\* bufPush on either buffer, in any order, behind a first block or none
NextTwo ==
    \/ \E b \in TwoBufs, cp \in CopyOrders : Push(b, cp)
    \/ \E size \in FirstRaws : Raw(size)

SpecTwo == InitTwo /\ [][NextTwo]_vars

\* the arena has room for every block the pushes of both buffers ask for
LargeEnough == arena.len + 2 * ItemSize * (2 * ceilPowerOf2(MaxLen)) <= arena.cap

\* C33: for two Buffers sharing one sufficiently large arena and any interleaving
\* of Push calls on them, each Buffer ends with exactly the items pushed to it, in
\* order: a growth that relocates a Buffer copies all old elements to the new
\* block and does not alter the other Buffer's elements.
C33_TwoBuffers ==
    (last.op = "push" /\ LargeEnough) =>
        /\ failed = "none"
        /\ last.ret
        /\ \A b \in TwoBufs : Pushed(b)

\* C34: Resize of the last allocation to length 0 succeeds, sets the block's
\* pointer to null and its length to 0, and retracts the arena's length to the
\* block's former start offset.
C34_ResizeToZero ==
    [][\A s \in Slots :
          (Resize(s, 0) /\ lastAlloc(mem, blocks[s])) =>
              /\ failed' = "none"
              /\ last'.ret
              /\ blocks'[s] = NullBlock
              /\ mem'.len = Off(mem, blocks[s])]_vars

\* after the second of two blocks was resized to 0: the length is back at its
\* start, behind the first block
C34_Witness ==
    /\ last.op = "resize" /\ last.ret /\ failed = "none"
    /\ blocks[last.slot] = NullBlock
    /\ Len(alive) = 1
    /\ mem.len = Off(mem, blocks[alive[1]]) + blocks[alive[1]].len
    /\ mem.len > 0

\* the offset at which memAlloc places a block of the given alignment
StartOffset(alignment) == alignForward(Add(mem.ptr, mem.len), alignment) - mem.ptr

\* C35: for every len up to the maximum size_t value, Allocate(len, a) fails
\* whenever the mathematical sum of the aligned start offset and len exceeds the
\* capacity: the wrap-around of offset + len never lets an oversized request
\* succeed or move the length backwards.
C35_NoWrap ==
    [][\A s \in Slots, len \in WideLens, a \in Aligns :
          (Alloc(s, len, a) /\ StartOffset(a) + len > mem.cap) =>
              /\ ~last'.ret
              /\ mem'.len = mem.len]_vars

\* C36: in mem.h, whenever memReallocEx returns a non-null pointer, the arena's
\* len <= commit holds afterwards (the whole returned range is committed), even
\* when the OS commit call inside memCommit fails.
C36_LenCommitted ==
    [][/\ \A size \in FirstRaws \cup {NextRaw} :
             (Raw(size) /\ last'.ret) => arena'.len <= arena'.commit
       /\ \A b \in BufIds, total \in Totals, given \in BOOLEAN, cp \in CopyOrders :
             (Ensure(b, total, given, cp) /\ bufs'[b].cap > bufs[b].cap) =>
                 arena'.len <= arena'.commit]_vars

\* ------------------------------------------- direct calls of the helpers
\* MEM_ASSERT_MSG(alignment > 0), MEM_ASSERT_MSG(!(alignment & (alignment - 1)))
memAlignAssert(alignment) ==
    alignment > 0 /\ BitAnd(alignment, Sub(alignment, 1)) = 0

\* addresses at both ends of the machine word and around a page
AlignAddrs ==
    {0, 1, 7, 8, 9, PAGE_SIZE - 1, PAGE_SIZE, PAGE_SIZE + 1,
     SIZE_MAX - 8, SIZE_MAX - 7, SIZE_MAX - 1, SIZE_MAX}

\* alignments: powers of two up to the highest bit, and two that are none
AlignArgs == {1, 2, 8, PAGE_SIZE, 2 ^ (WordBits - 1)} \cup BadAligns

\* arguments of ceilPowerOf2: zero, the powers of two and their neighbours, the
\* largest value
CeilArgs ==
    {0, SIZE_MAX} \cup {2 ^ k : k \in 0 .. WordBits - 1}
                  \cup {2 ^ k + 1 : k \in 1 .. WordBits - 1}
                  \cup {2 ^ k - 1 : k \in 2 .. WordBits - 1}

\* totals asked of memBufEnsure that no power of two of the machine word reaches
HugeTotals == {2 ^ (WordBits - 1) + 1, SIZE_MAX}

\* the caller's variables after a direct call that returned ret; the caller
\* tries the helpers before it allocates
Helped(fn, arg, alignment, ret, ok) ==
    /\ arena.len = 0
    /\ call' = [fn |-> fn, arg |-> arg, alignment |-> alignment, ret |-> ret]
    /\ failed' = IF ok THEN "none" ELSE "assert_alignment"
    /\ UNCHANGED <<mem, reserved, bytes, blocks, alive, last, arena, heap, bufs,
                   asked, zbuf>>

\* memAlignBackward(addr, alignment)
AlignBackwardCall(addr, alignment) ==
    /\ failed = "none"
    /\ Helped("memAlignBackward", addr, alignment, memAlignBackward(addr, alignment),
              memAlignAssert(alignment))

\* memAlignForward(addr, alignment)
AlignForwardCall(addr, alignment) ==
    /\ failed = "none"
    /\ Helped("memAlignForward", addr, alignment, memAlignForward(addr, alignment),
              memAlignAssert(alignment))

\* ceilPowerOf2(v)
CeilCall(v) ==
    /\ failed = "none"
    /\ Helped("ceilPowerOf2", v, 0, ceilPowerOf2(v), TRUE)

NextHelpers ==
    \/ \E addr \in AlignAddrs, a \in AlignArgs : AlignBackwardCall(addr, a)
    \/ \E addr \in AlignAddrs, a \in AlignArgs : AlignForwardCall(addr, a)
    \/ \E v \in CeilArgs : CeilCall(v)
    \/ \E b \in BufIds, cp \in CopyOrders : Push(b, cp)
    \/ \E b \in BufIds, v \in HugeTotals, cp \in CopyOrders : Ensure(b, v, TRUE, cp)

SpecHelpers == InitBuf /\ [][NextHelpers]_vars

\* C37: for every address and every power-of-two alignment a > 0,
\* memAlignBackward returns the greatest multiple of a that is <= address and
\* memAlignForward returns the least multiple of a that is >= address;
\* memAlignForward asserts, rather than wraps, when rounding up would overflow
\* the machine word.
C37_Align ==
    [][\A addr \in AlignAddrs, a \in AlignArgs \ BadAligns :
          /\ AlignBackwardCall(addr, a) =>
                (failed' = "none" /\ call'.ret = (addr \div a) * a)
          /\ AlignForwardCall(addr, a) =>
                IF AlignUp(addr, a) <= SIZE_MAX
                THEN failed' = "none" /\ call'.ret = AlignUp(addr, a)
                ELSE failed' # "none"]_vars

\* p is a power of two
IsPow2(p) == p \in Pow2s

\* what the claim says of the value ret that ceilPowerOf2(v) returned
CeilRight(v, ret) ==
    IF 1 <= v /\ v <= 2 ^ (WordBits - 1)
    THEN /\ IsPow2(ret)
         /\ ret >= v
         /\ ret < 2 * v
         /\ IsPow2(v) => ret = v
    ELSE ret = 0

\* C40: for every v with 1 <= v <= 2^(w-1), ceilPowerOf2(v) is the smallest power
\* of two >= v (v itself when v is a power of two); for v = 0 or v > 2^(w-1) it
\* returns 0, which memBufRealloc rejects by assertion before touching the arena.
C40_CeilPowerOf2 ==
    [][/\ call'.fn = "ceilPowerOf2" => CeilRight(call'.arg, call'.ret)
       /\ \A b \in BufIds, v \in HugeTotals, cp \in CopyOrders :
             Ensure(b, v, TRUE, cp) =>
                 /\ ceilPowerOf2(v) = 0
                 /\ failed' = "assert_capacity"
                 /\ arena' = arena /\ heap' = heap /\ bufs' = bufs]_vars

\* after ceilPowerOf2 rounded a value up to the highest power of two, and the
\* assertion of memBufRealloc stopped a request on a buffer that holds items
C40_Witness ==
    /\ call.fn = "ceilPowerOf2"
    /\ call.arg = 2 ^ (WordBits - 2) + 1
    /\ call.ret = 2 ^ (WordBits - 1)
    /\ failed = "assert_capacity" /\ last.op = "ensure"
    /\ \E b \in BufIds : bufs[b].len = 2

\* ============================================================ main.zig: Buf
\* the storage of a Buf holds at most ZigCap items (the tests use 1024)
ZigCap == 3

ZigCaps == 1 .. ZigCap

\* the items the caller appends
ZigItems == 1 .. ZigCap

\* the value of a slot that was set to undefined; no item equals it
undefined == 0

\* Buf(T).init(buf): no items, over a storage that is undefined
zigInit(cap) ==
    [storage |-> [i \in 1 .. cap |-> undefined], len |-> 0, ret |-> "none", item |-> 0]

\* self.items
zigItems(b) == SubSeq(b.storage, 1, b.len)

\* append that does not look at the capacity
zigAppend_unchecked(b, item) ==
    [storage |-> [i \in 1 .. Len(b.storage) |->
                     IF i = b.len + 1 THEN item ELSE b.storage[i]],
     len |-> b.len + 1,
     ret |-> "void",
     item |-> 0]

\* append(self, item): error.Full, or the item stored behind the last one
zigAppend(b, item) ==
    IF b.len = Len(b.storage) THEN [b EXCEPT !.ret = "Full", !.item = 0]
    ELSE [storage |-> [i \in 1 .. Len(b.storage) |->
                          IF i = b.len + 1 THEN item ELSE b.storage[i]],
          len |-> b.len + 1,
          ret |-> "void",
          item |-> 0]

\* pop(self)
zigPop(b) ==
    [b EXCEPT !.len = IF b.len > 0 THEN b.len - 1 ELSE b.len, !.ret = "void", !.item = 0]

\* clear(self)
zigClear(b) == [b EXCEPT !.len = 0, !.ret = "void", !.item = 0]

\* swapRemove(self, pos) for pos < len: items[pos] = last.*, last.* = undefined,
\* len -= 1, in this order; indices of the model start at 1
zigSwapRemove(b, pos) ==
    [storage |-> [i \in 1 .. Len(b.storage) |->
                     IF i = b.len THEN undefined
                     ELSE IF i = pos + 1 THEN b.storage[b.len]
                     ELSE b.storage[i]],
     len |-> b.len - 1,
     ret |-> "item",
     item |-> b.storage[pos + 1]]

\* orderedRemove that copies the items behind pos from the last one down
zigOrderedRemove_backward(b, pos) ==
    [storage |-> [i \in 1 .. Len(b.storage) |->
                     IF i = b.len THEN undefined
                     ELSE IF i >= pos + 1 /\ i < b.len THEN b.storage[b.len]
                     ELSE b.storage[i]],
     len |-> b.len - 1,
     ret |-> "item",
     item |-> b.storage[pos + 1]]

\* orderedRemove(self, pos) for pos < len: std.mem.copy of items[pos + 1 .. len]
\* to items[pos .. len - 1] from the first item up, items[len - 1] = undefined
zigOrderedRemove(b, pos) ==
    [storage |-> [i \in 1 .. Len(b.storage) |->
                     IF i = b.len THEN undefined
                     ELSE IF i >= pos + 1 /\ i < b.len THEN b.storage[i + 1]
                     ELSE b.storage[i]],
     len |-> b.len - 1,
     ret |-> "item",
     item |-> b.storage[pos + 1]]

\* var buf = Buf(usize).init(&storage), in a program that uses no arena
InitZig ==
    /\ \E cap \in ZigCaps : zbuf = zigInit(cap)
    /\ call = NoCall
    /\ mem = NullArena
    /\ reserved = 0
    /\ bytes = {}
    /\ blocks = [s \in Slots |-> NullBlock]
    /\ alive = <<>>
    /\ failed = "none"
    /\ last = [op |-> "init", slot |-> 0, ret |-> TRUE, leak |-> FALSE,
               decommit |-> FALSE]
    /\ arena = NoArena
    /\ heap = EmptyHeap
    /\ bufs = [b \in BufIds |-> NullBuf]
    /\ asked = [b \in BufIds |-> 0]

\* the caller's variables after a call on the Buf; assert(pos < len) stops the
\* program when ok is false
ZigCalled(b, ok) ==
    /\ zbuf' = IF ok THEN b ELSE zbuf
    /\ failed' = IF ok THEN "none" ELSE "assert_pos"
    /\ UNCHANGED <<mem, reserved, bytes, blocks, alive, last, arena, heap, bufs,
                   asked, call>>

append(item) ==
    /\ failed = "none"
    /\ ZigCalled(zigAppend(zbuf, item), TRUE)

pop ==
    /\ failed = "none"
    /\ ZigCalled(zigPop(zbuf), TRUE)

clear ==
    /\ failed = "none"
    /\ ZigCalled(zigClear(zbuf), TRUE)

swapRemove(pos) ==
    /\ failed = "none"
    /\ ZigCalled(IF pos < zbuf.len THEN zigSwapRemove(zbuf, pos) ELSE zbuf,
                 pos < zbuf.len)

orderedRemove(pos) ==
    /\ failed = "none"
    /\ ZigCalled(IF pos < zbuf.len THEN zigOrderedRemove(zbuf, pos) ELSE zbuf,
                 pos < zbuf.len)

NextZig ==
    \/ \E item \in ZigItems : append(item)
    \/ pop
    \/ clear
    \/ \E pos \in 0 .. ZigCap : swapRemove(pos)
    \/ \E pos \in 0 .. ZigCap : orderedRemove(pos)

SpecZig == InitZig /\ [][NextZig]_vars

\* C38: for the fixed-capacity Zig Buf, after any sequence of append, pop, clear,
\* swapRemove and orderedRemove, len <= capacity holds; append on a full buffer
\* returns error Full and leaves the items unchanged, otherwise it increases len
\* by one and stores the item last.
C38_ZigAppend ==
    [][/\ zbuf'.len <= Len(zbuf'.storage)
       /\ \A item \in ZigItems :
             append(item) =>
                 IF zbuf.len = Len(zbuf.storage)
                 THEN zbuf'.ret = "Full" /\ zigItems(zbuf') = zigItems(zbuf)
                 ELSE /\ zbuf'.ret = "void"
                      /\ zigItems(zbuf') = Append(zigItems(zbuf), item)]_vars

\* after an append on a full buffer that holds what was appended to it
C38_Witness ==
    /\ zbuf.ret = "Full"
    /\ zbuf.len = ZigCap
    /\ zigItems(zbuf) = [i \in 1 .. ZigCap |-> i]

\* the sequence without its element at index i
Without(seq, i) == SubSeq(seq, 1, i - 1) \o SubSeq(seq, i + 1, Len(seq))

\* C39: for the fixed-capacity Zig Buf and every pos < len, orderedRemove(pos)
\* returns the element at pos, decreases len by one and keeps all remaining
\* elements in their original relative order, while swapRemove(pos) returns the
\* element at pos, decreases len by one and puts the former last element at pos,
\* leaving all other elements in place.
C39_ZigRemove ==
    [][\A pos \in 0 .. ZigCap :
          pos < zbuf.len =>
              /\ orderedRemove(pos) =>
                    /\ failed' = "none"
                    /\ zbuf'.ret = "item" /\ zbuf'.item = zbuf.storage[pos + 1]
                    /\ zbuf'.len = zbuf.len - 1
                    /\ zigItems(zbuf') = Without(zigItems(zbuf), pos + 1)
              /\ swapRemove(pos) =>
                    /\ failed' = "none"
                    /\ zbuf'.ret = "item" /\ zbuf'.item = zbuf.storage[pos + 1]
                    /\ zbuf'.len = zbuf.len - 1
                    /\ \A i \in 1 .. zbuf'.len :
                          zbuf'.storage[i] = IF i = pos + 1 THEN zbuf.storage[zbuf.len]
                                             ELSE zbuf.storage[i]]_vars

\* after the first of three different items was removed, by either function
C39_Witness ==
    /\ failed = "none"
    /\ zbuf.ret = "item" /\ zbuf.item = 1
    /\ zbuf.len = 2
    /\ zigItems(zbuf) \in {<<2, 3>>, <<3, 2>>}

====
